---- MODULE Spec2Model ----
(***************************************************************************)
(* Model of generate_life_calendar.py: the date parser, the page geometry, *)
(* the grid drawing with its date cursors, the document generator and the  *)
(* entry point.  Strings are sequences of one-character strings; lengths   *)
(* of the page geometry are kept in tenths of a layout unit so that the    *)
(* divisions of the source are exact.                                      *)
(***************************************************************************)
EXTENDS Integers, Sequences, FiniteSets, TLC

VARIABLES
    pc,          \* position of the running function
    entry,       \* the function the run was started at
    shape,       \* how the text handed to parse_date / the command line was built
    date_text,   \* parse_date: the argument `date`
    stripped,    \* parse_date: the local `stripped`
    f_idx,       \* parse_date: index of the format being tried
    parse_ret,   \* parse_date: returned datetime, or the raised error
    now,         \* is_current_week: argument `now`
    wk_month,    \* is_current_week: argument `month`
    wk_day,      \* is_current_week: argument `day`
    wk_ret,      \* is_current_week: returned value, or the raised error
    birthdate,   \* gen_calendar: argument `birthdate`
    title,       \* gen_calendar: argument `title`
    filename,    \* gen_calendar: argument `filename`
    gen_ret,     \* gen_calendar: "running", "ok" or the raised error
    surfaces,    \* output files created by cairo.PDFSurface, in order
    page_ops,    \* drawing operations issued on the page not yet finalized
    pages,       \* every finalized page (show_page), in order
    year,        \* gen_calendar: loop variable `year`
    start_date,  \* draw_grid: local `start_date`
    date,        \* draw_grid: local `date` (the date cursor)
    i,           \* draw_grid: loop counter of the running loop
    pos_x,       \* draw_grid: local `pos_x`
    pos_y,       \* draw_grid: local `pos_y`
    headers,     \* draw_grid: month headers shown so far on this page
    row_labels,  \* draw_grid: year labels shown so far on this page
    squares,     \* draw_square calls of this page: <<row, col, x, y>>
    argv,        \* main: what the user put on the command line
    m_start,     \* main: local `start_date`
    printed      \* main: lines printed

parseVars == <<shape, date_text, stripped, f_idx, parse_ret>>
weekVars  == <<now, wk_month, wk_day, wk_ret>>
genVars   == <<birthdate, title, filename, gen_ret, surfaces, page_ops, pages, year>>
gridVars  == <<start_date, date, i, pos_x, pos_y, headers, row_labels, squares>>
mainVars  == <<argv, m_start, printed>>
vars == <<pc, entry, parseVars, weekVars, genVars, gridVars, mainVars>>

----------------------------------------------------------------------------
(* Bounds of the model *)

MaxPad == 2          \* most blanks added on either side of a date text
MaxTitleLen == 32    \* longest title tried
NumBirthYears == 3   \* how many consecutive birth years are tried
NumRefYears == 2     \* how many consecutive reference years are tried

----------------------------------------------------------------------------
(* Program constants *)

DOC_WIDTH == 1872
DOC_HEIGHT == 2880
MAX_TITLE_SIZE == 30
NUM_ROWS == 20
NUM_COLUMNS == 12
Y_MARGIN == 300
BOX_MARGIN == 6
HEADER_OFFSET == 36
X_OFFSET == 50
LIFE_SPAN == 90
DEFAULT_TITLE == <<"L","I","F","E"," ","C","A","L","E","N","D","A","R">>

\* Lengths are held in tenths of a layout unit: every quotient of the
\* geometry below is then an exact integer.
Units == 10

----------------------------------------------------------------------------
(* Calendar dates (datetime.date / datetime.datetime at midnight) *)

IsLeap(y) == (y % 4 = 0) /\ ((y % 100 # 0) \/ (y % 400 = 0))

DaysInMonth(y, m) ==
    IF m = 2 THEN (IF IsLeap(y) THEN 29 ELSE 28)
    ELSE IF m \in {4, 6, 9, 11} THEN 30 ELSE 31

\* The constructor datetime.datetime(year, month, day) raises ValueError
\* unless the three fields name a day of the calendar.
DateOk(y, m, d) ==
    /\ y >= 1 /\ y <= 9999
    /\ m >= 1 /\ m <= 12
    /\ d >= 1 /\ d <= DaysInMonth(y, m)

MkDate(y, m, d) == [year |-> y, month |-> m, day |-> d]

\* Ordering of two dates (the comparison operators of datetime).
DateLE(a, b) ==
    \/ a.year < b.year
    \/ a.year = b.year /\ a.month < b.month
    \/ a.year = b.year /\ a.month = b.month /\ a.day <= b.day

DateLT(a, b) == DateLE(a, b) /\ a # b

\* date + timedelta(days=1)
NextDay(a) ==
    IF a.day < DaysInMonth(a.year, a.month) THEN MkDate(a.year, a.month, a.day + 1)
    ELSE IF a.month < 12 THEN MkDate(a.year, a.month + 1, 1)
    ELSE MkDate(a.year + 1, 1, 1)

RECURSIVE AddDays(_, _)
AddDays(a, n) == IF n = 0 THEN a ELSE AddDays(NextDay(a), n - 1)

Min(a, b) == IF a <= b THEN a ELSE b

\* date + relativedelta(months=n): the month overflows into the year and the
\* day is clamped to the length of the month reached.
AddMonths(a, n) ==
    LET t == (a.month - 1) + n
        y == a.year + (t \div 12)
        m == (t % 12) + 1
    IN  MkDate(y, m, Min(a.day, DaysInMonth(y, m)))

\* date + relativedelta(years=n)
AddYears(a, n) ==
    LET y == a.year + n
    IN  MkDate(y, a.month, Min(a.day, DaysInMonth(y, a.month)))

----------------------------------------------------------------------------
(* Text *)

Digits == <<"0", "1", "2", "3", "4", "5", "6", "7", "8", "9">>
DigitSet == {Digits[k] : k \in 1..10}
DigitVal(c) == (CHOOSE k \in 1..10 : Digits[k] = c) - 1

\* int(s) of a text of decimal digits
RECURSIVE Num(_)
Num(s) == IF s = <<>> THEN 0
          ELSE 10 * Num(SubSeq(s, 1, Len(s) - 1)) + DigitVal(s[Len(s)])

\* the decimal digits of n, at least w of them ('%0wd' % n)
RECURSIVE Fmt(_, _)
Fmt(n, w) == IF n < 10 /\ w <= 1 THEN <<Digits[n + 1]>>
             ELSE Fmt(n \div 10, w - 1) \o <<Digits[(n % 10) + 1]>>

Blanks(n) == [k \in 1..n |-> " "]

\* str.strip(): leading and trailing blanks removed
RECURSIVE LStrip(_)
LStrip(s) == IF s # <<>> /\ s[1] = " " THEN LStrip(Tail(s)) ELSE s
RECURSIVE RStrip(_)
RStrip(s) == IF s # <<>> /\ s[Len(s)] = " " THEN RStrip(SubSeq(s, 1, Len(s) - 1)) ELSE s
Strip(s) == RStrip(LStrip(s))

----------------------------------------------------------------------------
(* datetime.datetime.strptime(data, format) *)

\* The regular expressions strptime compiles the directives to; each is a
\* list of alternatives tried in order, each alternative a list of the sets
\* of characters allowed at its positions.
D12 == {"1", "2"}
D19 == DigitSet \ {"0"}
Directive(tok) ==
    IF tok = "%d" THEN << <<{"3"}, {"0", "1"}>>, <<D12, DigitSet>>, <<{"0"}, D19>>,
                          <<D19>>, <<{" "}, D19>> >>
    ELSE IF tok = "%m" THEN << <<{"1"}, {"0", "1", "2"}>>, <<{"0"}, D19>>, <<D19>> >>
    ELSE << <<DigitSet, DigitSet, DigitSet, DigitSet>> >>

IsDirective(tok) == tok \in {"%d", "%m", "%Y"}

AltMatches(alt, data, pos) ==
    /\ pos + Len(alt) - 1 <= Len(data)
    /\ \A j \in 1..Len(alt) : data[pos + j - 1] \in alt[j]

NoMatch == [ok |-> FALSE]

\* re.match of the compiled format at the start of data, with backtracking
\* over the alternatives of each directive.
RECURSIVE MatchFrom(_, _, _, _, _)
MatchFrom(data, pos, fmt, k, found) ==
    IF k > Len(fmt) THEN [ok |-> TRUE, end |-> pos, found |-> found]
    ELSE IF IsDirective(fmt[k]) THEN
        LET alts == Directive(fmt[k])
            try(a) == IF AltMatches(alts[a], data, pos)
                      THEN MatchFrom(data, pos + Len(alts[a]), fmt, k + 1,
                               [found EXCEPT ![fmt[k]] =
                                   SubSeq(data, pos, pos + Len(alts[a]) - 1)])
                      ELSE NoMatch
            good == {a \in 1..Len(alts) : try(a).ok}
        IN  IF good = {} THEN NoMatch
            ELSE try(CHOOSE a \in good : \A b \in good : a <= b)
    ELSE IF pos <= Len(data) /\ data[pos] = fmt[k]
         THEN MatchFrom(data, pos + 1, fmt, k + 1, found)
         ELSE NoMatch

ValueError == [kind |-> "ValueError"]
Returned(d) == [kind |-> "date", date |-> d]

\* the text of a day field as a number: the '%d' alternative " [1-9]" keeps
\* its blank, which int() ignores
FieldNum(s) == Num(LStrip(s))

Strptime(data, fmt) ==
    LET m == MatchFrom(data, 1, fmt, 1, [t \in {"%d", "%m", "%Y"} |-> <<>>])
    IN  IF ~m.ok THEN ValueError                       \* does not match format
        ELSE IF m.end # Len(data) + 1 THEN ValueError  \* unconverted data remains
        ELSE LET y == FieldNum(m.found["%Y"])
                 mo == FieldNum(m.found["%m"])
                 d == FieldNum(m.found["%d"])
             IN  IF DateOk(y, mo, d) THEN Returned(MkDate(y, mo, d))
                 ELSE ValueError                       \* out of range

----------------------------------------------------------------------------
(* parse_date(date) *)

formats_slash_only == << <<"%d", "/", "%m", "/", "%Y">> >>

formats == << <<"%d", "/", "%m", "/", "%Y">>, <<"%d", "-", "%m", "-", "%Y">> >>

NoResult == [kind |-> "none"]

\* the whole of parse_date, as main calls it
RECURSIVE ParseLoop(_, _)
ParseLoop(text, k) ==
    IF k > Len(formats) THEN ValueError
    ELSE LET r == Strptime(text, formats[k])
         IN  IF r.kind = "date" THEN r ELSE ParseLoop(text, k + 1)

parse_date(text) == ParseLoop(text, 1)

\* Texts handed to parse_date: a day, a month and a year written with a given
\* least number of digits, two separators, blanks around, in a given layout.
DayFields   == {<<1, 2>>, <<1, 1>>, <<29, 2>>, <<31, 2>>, <<32, 2>>, <<0, 2>>}
MonthFields == {<<1, 2>>, <<2, 2>>, <<2, 1>>, <<4, 2>>, <<12, 2>>, <<13, 2>>, <<0, 2>>}
YearFields  == {<<1990, 4>>, <<2000, 4>>, <<1900, 4>>, <<199, 3>>, <<0, 4>>, <<19900, 4>>}
Separators  == {"/", "-", "."}
Layouts     == {"dmy", "ymd", "no_day", "no_year"}

Shapes ==
    { [d |-> df[1], dw |-> df[2], m |-> mf[1], mw |-> mf[2], y |-> yf[1], yw |-> yf[2],
       sep1 |-> s1, sep2 |-> s2, lead |-> ld, trail |-> tr, layout |-> lay] :
         df \in DayFields, mf \in MonthFields, yf \in YearFields,
         s1 \in Separators, s2 \in Separators,
         ld \in 0..MaxPad, tr \in 0..MaxPad, lay \in Layouts }

TextOf(sh) ==
    LET D == Fmt(sh.d, sh.dw)
        M == Fmt(sh.m, sh.mw)
        Y == Fmt(sh.y, sh.yw)
        body == IF sh.layout = "dmy" THEN D \o <<sh.sep1>> \o M \o <<sh.sep2>> \o Y
                ELSE IF sh.layout = "ymd" THEN Y \o <<sh.sep1>> \o M \o <<sh.sep2>> \o D
                ELSE IF sh.layout = "no_day" THEN M \o <<sh.sep2>> \o Y
                ELSE D \o <<sh.sep1>> \o M
    IN  Blanks(sh.lead) \o body \o Blanks(sh.trail)

NoDate == MkDate(0, 0, 0)
NoShape == [layout |-> "none"]

ParseIdle ==
    /\ shape = NoShape /\ date_text = <<>> /\ stripped = <<>>
    /\ f_idx = 0 /\ parse_ret = NoResult
WeekIdle ==
    /\ now = NoDate /\ wk_month = 0 /\ wk_day = 0 /\ wk_ret = NoResult
GenIdle ==
    /\ birthdate = NoDate /\ title = <<>> /\ filename = <<>> /\ gen_ret = "idle"
    /\ surfaces = <<>> /\ page_ops = 0 /\ pages = <<>> /\ year = 0
GridIdle ==
    /\ start_date = NoDate /\ date = NoDate /\ i = 0 /\ pos_x = 0 /\ pos_y = 0
    /\ headers = <<>> /\ row_labels = <<>> /\ squares = {}
MainIdle ==
    /\ argv = [date |-> <<>>, enddate |-> <<>>] /\ m_start = NoResult /\ printed = <<>>

InitParse ==
    /\ pc = "parse_date" /\ entry = "parse_date"
    /\ shape \in {sh \in Shapes : sh.layout = "dmy" \/ (sh.lead = 0 /\ sh.trail = 0)}
    /\ date_text = TextOf(shape)
    /\ stripped = <<>> /\ f_idx = 0 /\ parse_ret = NoResult
    /\ WeekIdle /\ GenIdle /\ GridIdle /\ MainIdle

\* lines 43-44
ParseStrip ==
    /\ pc = "parse_date"
    /\ stripped' = Strip(date_text)
    /\ f_idx' = 1
    /\ pc' = "parse_loop"
    /\ UNCHANGED <<entry, shape, date_text, parse_ret, weekVars, genVars, gridVars, mainVars>>

\* lines 46-52: one turn of the loop over the formats
ParseTry ==
    /\ pc = "parse_loop" /\ f_idx <= Len(formats)
    /\ LET r == Strptime(date_text, formats[f_idx])
       IN  IF r.kind = "date"
           THEN parse_ret' = r /\ pc' = "parse_done" /\ f_idx' = f_idx
           ELSE parse_ret' = parse_ret /\ pc' = pc /\ f_idx' = f_idx + 1
    /\ UNCHANGED <<entry, shape, date_text, stripped, weekVars, genVars, gridVars, mainVars>>

\* line 54
ParseRaise ==
    /\ pc = "parse_loop" /\ f_idx > Len(formats)
    /\ parse_ret' = ValueError
    /\ pc' = "parse_done"
    /\ UNCHANGED <<entry, shape, date_text, stripped, f_idx, weekVars, genVars, gridVars, mainVars>>

NextParse == ParseStrip \/ ParseTry \/ ParseRaise

SpecParse == InitParse /\ [][NextParse]_vars

----------------------------------------------------------------------------
(* is_current_week(now, month, day) *)

FirstRefYear == 2019
RefYears == FirstRefYear..(FirstRefYear + NumRefYears - 1)
RefDays == {1, 2, 25, 28, 29, 30, 31}

InWindow(lo, x, hi) == DateLE(lo, x) /\ DateLT(x, hi)

InitWeek ==
    /\ pc = "is_current_week" /\ entry = "is_current_week"
    /\ now \in {MkDate(y, m, d) : y \in RefYears, m \in 1..12, d \in 1..31}
    /\ DateOk(now.year, now.month, now.day)
    /\ wk_month \in 1..12
    /\ wk_day \in RefDays
    /\ \E y \in {now.year, now.year + 1} : DateOk(y, wk_month, wk_day)
    /\ wk_ret = NoResult
    /\ ParseIdle /\ GenIdle /\ GridIdle /\ MainIdle

\* lines 77-78: a constructor raises
WeekRaise ==
    /\ pc = "is_current_week"
    /\ ~DateOk(now.year, wk_month, wk_day) \/ ~DateOk(now.year + 1, wk_month, wk_day)
    /\ wk_ret' = ValueError
    /\ pc' = "week_done"
    /\ UNCHANGED <<entry, now, wk_month, wk_day, parseVars, genVars, gridVars, mainVars>>

\* lines 76-80
WeekReturn ==
    /\ pc = "is_current_week"
    /\ DateOk(now.year, wk_month, wk_day) /\ DateOk(now.year + 1, wk_month, wk_day)
    /\ LET end == AddDays(now, 7)
           date1 == MkDate(now.year, wk_month, wk_day)
           date2 == MkDate(now.year + 1, wk_month, wk_day)
       IN  wk_ret' = [kind |-> "bool",
                      value |-> InWindow(now, date1, end) \/ InWindow(now, date2, end)]
    /\ pc' = "week_done"
    /\ UNCHANGED <<entry, now, wk_month, wk_day, parseVars, genVars, gridVars, mainVars>>

NextWeek == WeekRaise \/ WeekReturn

SpecWeek == InitWeek /\ [][NextWeek]_vars

----------------------------------------------------------------------------
(* Page geometry, lines 33-34, in tenths of a layout unit *)

BOX_SIZE ==
    ((Units * (DOC_HEIGHT - (Y_MARGIN + HEADER_OFFSET))) \div NUM_ROWS) - Units * BOX_MARGIN

X_MARGIN_not_halved ==
    (Units * DOC_WIDTH - ((BOX_SIZE + Units * BOX_MARGIN) * NUM_COLUMNS)) + Units * X_OFFSET

X_MARGIN ==
    ((Units * DOC_WIDTH - ((BOX_SIZE + Units * BOX_MARGIN) * NUM_COLUMNS)) \div 2)
        + Units * X_OFFSET

Pitch == BOX_SIZE + Units * BOX_MARGIN     \* the step `BOX_SIZE + BOX_MARGIN`

----------------------------------------------------------------------------
(* draw_row(ctx, pos_y, date) and draw_grid(ctx, date) *)

\* draw_square(ctx, pos_x, pos_y): the rectangle it strokes and fills
Square(row, col, x, y) == [row |-> row, col |-> col, x |-> x, y |-> y, size |-> BOX_SIZE]

\* lines 87-94: the squares of one row, and the value the function's own
\* `date` has when it returns (a rebinding the caller never sees)
RECURSIVE DrawRowFrom(_, _, _, _, _)
DrawRowFrom(col, px, py, d, row) ==
    IF col >= NUM_COLUMNS THEN [squares |-> {}, date |-> d]
    ELSE LET rest == DrawRowFrom(col + 1, px + Pitch, py, AddMonths(d, 12), row)
         IN  [squares |-> {Square(row, col, px, py)} \cup rest.squares, date |-> rest.date]

draw_row(py, d, row) == DrawRowFrom(0, X_MARGIN, py, d, row)

MonthAbbr == <<"Jan", "Feb", "Mar", "Apr", "May", "Jun",
               "Jul", "Aug", "Sep", "Oct", "Nov", "Dec">>

\* line 136 and line 159: the advances of the two cursors
HeaderAdvance_by_year(d) == AddMonths(d, 12)
HeaderAdvance(d) == AddMonths(d, 1)
RowAdvance(d) == AddYears(d, 1)

FirstBirthYear == 1988
BirthYears == FirstBirthYear..(FirstBirthYear + NumBirthYears - 1)
StartDates ==
    {dt \in {MkDate(y, m, d) : y \in BirthYears, m \in 1..12, d \in {1, 6, 29, 31}} :
        DateOk(dt.year, dt.month, dt.day)}

InitGrid ==
    /\ pc = "draw_grid" /\ entry = "draw_grid"
    /\ date \in StartDates
    /\ start_date = NoDate /\ i = 0 /\ pos_x = 0 /\ pos_y = 0
    /\ headers = <<>> /\ row_labels = <<>> /\ squares = {}
    /\ page_ops = 0
    /\ birthdate = NoDate /\ title = <<>> /\ filename = <<>> /\ gen_ret = "idle"
    /\ surfaces = <<>> /\ pages = <<>> /\ year = 0
    /\ ParseIdle /\ WeekIdle /\ MainIdle

\* lines 111-129
GridEnter ==
    /\ pc = "draw_grid"
    /\ start_date' = date
    /\ pos_x' = X_MARGIN
    /\ pos_y' = Y_MARGIN * Units
    /\ i' = 0
    /\ headers' = <<>> /\ row_labels' = <<>> /\ squares' = {}
    /\ pc' = "grid_headers"
    /\ UNCHANGED <<entry, date, parseVars, weekVars, genVars, mainVars>>

\* lines 130-136: one column header
GridHeader ==
    /\ pc = "grid_headers" /\ i < NUM_COLUMNS
    /\ headers' = Append(headers, MonthAbbr[date.month])
    /\ page_ops' = page_ops + 1
    /\ pos_x' = pos_x + Pitch
    /\ date' = HeaderAdvance(date)
    /\ i' = i + 1
    /\ UNCHANGED <<pc, entry, start_date, pos_y, row_labels, squares, parseVars, weekVars,
                   birthdate, title, filename, gen_ret, surfaces, pages, year, mainVars>>

\* lines 139-143: the header loop is over, the cursor goes back to the start
GridResetCursor ==
    /\ pc = "grid_headers" /\ i = NUM_COLUMNS
    /\ date' = start_date
    /\ i' = 0
    /\ pc' = "grid_rows"
    /\ UNCHANGED <<entry, start_date, pos_x, pos_y, headers, row_labels, squares,
                   parseVars, weekVars, genVars, mainVars>>

\* lines 144-159: one row
GridRow ==
    /\ pc = "grid_rows" /\ i < NUM_ROWS
    /\ row_labels' = Append(row_labels, Fmt(date.year, 4))
    /\ squares' = squares \cup draw_row(pos_y, date, i).squares
    /\ page_ops' = page_ops + 1 + NUM_COLUMNS
    /\ pos_y' = pos_y + Pitch
    /\ date' = RowAdvance(date)
    /\ i' = i + 1
    /\ UNCHANGED <<pc, entry, start_date, pos_x, headers, parseVars, weekVars,
                   birthdate, title, filename, gen_ret, surfaces, pages, year, mainVars>>

\* draw_grid returns
GridReturn ==
    /\ pc = "grid_rows" /\ i = NUM_ROWS
    /\ pc' = IF entry = "draw_grid" THEN "grid_done" ELSE "gen_show_page"
    /\ UNCHANGED <<entry, parseVars, weekVars, genVars, gridVars, mainVars>>

NextGrid == GridEnter \/ GridHeader \/ GridResetCursor \/ GridRow \/ GridReturn

SpecGrid == InitGrid /\ [][NextGrid]_vars

----------------------------------------------------------------------------
(* gen_calendar(birthdate, title, filename) *)

\* line 162
TitleTooLong_off_by_one(t) == Len(t) >= MAX_TITLE_SIZE
TitleTooLong(t) == Len(t) > MAX_TITLE_SIZE

\* line 170: range(birthdate.year, birthdate.year + 90, NUM_ROWS)
NextPageYear_single(y) == y + 1
NextPageYear(y) == y + NUM_ROWS
MorePages(y, b) == y < b.year + LIFE_SPAN

\* line 183
PageStart_next_year(y) == MkDate(y + 1, 1, 1)
PageStart(y) == MkDate(y, 1, 1)

TitleOfLen(n) == [k \in 1..n |-> "T"]
Titles == {TitleOfLen(n) : n \in {0} \cup ((MAX_TITLE_SIZE - 1)..MaxTitleLen)}
life_calendar_pdf == <<"l","i","f","e","_","c","a","l","e","n","d","a","r",".","p","d","f">>

\* what gen_calendar hands back to whoever called it
GenExit == IF entry = "main" THEN "main_after_gen" ELSE "gen_done"

InitGen ==
    /\ pc = "gen_calendar" /\ entry = "gen_calendar"
    /\ birthdate \in StartDates
    /\ title \in Titles
    /\ filename = life_calendar_pdf
    /\ gen_ret = "running"
    /\ surfaces = <<>> /\ page_ops = 0 /\ pages = <<>> /\ year = 0
    /\ GridIdle /\ ParseIdle /\ WeekIdle /\ MainIdle

\* lines 162-164
GenRaiseTitle ==
    /\ pc = "gen_calendar" /\ TitleTooLong(title)
    /\ gen_ret' = "ValueError"
    /\ pc' = GenExit
    /\ UNCHANGED <<entry, birthdate, title, filename, surfaces, page_ops, pages, year,
                   parseVars, weekVars, gridVars, mainVars>>

\* lines 167-168, and the first value of the loop variable
GenCreateSurface ==
    /\ pc = "gen_calendar" /\ ~TitleTooLong(title)
    /\ surfaces' = Append(surfaces, filename)
    /\ year' = birthdate.year
    /\ pc' = "gen_loop"
    /\ UNCHANGED <<entry, birthdate, title, filename, gen_ret, page_ops, pages,
                   parseVars, weekVars, gridVars, mainVars>>

\* lines 171-184: background, title, and the call of draw_grid
GenPageBegin ==
    /\ pc = "gen_loop" /\ MorePages(year, birthdate)
    /\ page_ops' = page_ops + 2
    /\ date' = PageStart(year)
    /\ pc' = "draw_grid"
    /\ UNCHANGED <<entry, birthdate, title, filename, gen_ret, surfaces, pages, year,
                   start_date, i, pos_x, pos_y, headers, row_labels, squares,
                   parseVars, weekVars, mainVars>>

\* line 185, and the next value of the loop variable
GenShowPage ==
    /\ pc = "gen_show_page"
    /\ pages' = Append(pages, [start |-> start_date, ops |-> page_ops,
                               headers |-> headers, rows |-> row_labels])
    /\ page_ops' = 0
    /\ year' = NextPageYear(year)
    /\ pc' = "gen_loop"
    /\ UNCHANGED <<entry, birthdate, title, filename, gen_ret, surfaces,
                   parseVars, weekVars, gridVars, mainVars>>

\* the loop is over
GenReturn ==
    /\ pc = "gen_loop" /\ ~MorePages(year, birthdate)
    /\ gen_ret' = "ok"
    /\ pc' = GenExit
    /\ UNCHANGED <<entry, birthdate, title, filename, surfaces, page_ops, pages, year,
                   parseVars, weekVars, gridVars, mainVars>>

NextGen ==
    \/ GenRaiseTitle \/ GenCreateSurface \/ GenPageBegin \/ GenShowPage \/ GenReturn
    \/ NextGrid

SpecGen == InitGen /\ [][NextGen]_vars

----------------------------------------------------------------------------
(* main() *)

hard_coded_date == <<"0","6","/","0","7","/","1","9","9","0">>    \* line 207
hard_coded_end == <<>>                                             \* lines 214, 218
doc_name == <<"o","u","t",".","p","d","f">>                        \* line 212

\* str is true unless empty (line 214)
Truthy(str) == str # <<>>

\* command lines a user may give: the date, and the --end option or nothing
DateArgs == {<<"0","1","-","0","1","-","2","0","0","0">>,
             <<"0","3","-","0","1","-","2","0","0","0">>,
             hard_coded_date}
EndArgs == {<<>>,
            <<"0","1","-","0","1","-","2","0","0","0">>,
            <<"0","3","-","0","1","-","2","0","0","0">>,
            <<"2","9","-","0","2","-","2","0","0","0">>}

InitMain ==
    /\ pc = "main" /\ entry = "main"
    /\ argv \in [date : DateArgs, enddate : EndArgs]
    /\ m_start = NoResult /\ printed = <<>>
    /\ GenIdle /\ GridIdle /\ ParseIdle /\ WeekIdle

\* lines 206-212
MainParseStart ==
    /\ pc = "main"
    /\ LET r == parse_date(hard_coded_date)
       IN  /\ m_start' = r
           /\ IF r.kind = "date"
              THEN pc' = "main_branch" /\ printed' = printed
              ELSE pc' = "main_done" /\ printed' = Append(printed, [line |-> "Error"])
    /\ UNCHANGED <<entry, argv, parseVars, weekVars, genVars, gridVars>>

\* line 214 and lines 235-237: the condition is the empty text, so the
\* single-document branch is the one taken
MainSingle ==
    /\ pc = "main_branch" /\ ~Truthy(hard_coded_end)
    /\ birthdate' = m_start.date
    /\ title' = DEFAULT_TITLE
    /\ filename' = doc_name
    /\ gen_ret' = "running"
    /\ pc' = "gen_calendar"
    /\ UNCHANGED <<entry, surfaces, page_ops, pages, year,
                   parseVars, weekVars, gridVars, mainVars>>

\* lines 238-242
MainAfterGen ==
    /\ pc = "main_after_gen"
    /\ printed' = Append(printed, IF gen_ret = "ok"
                                  THEN [line |-> "Created", name |-> filename]
                                  ELSE [line |-> "Error"])
    /\ pc' = "main_done"
    /\ UNCHANGED <<entry, argv, m_start, parseVars, weekVars, genVars, gridVars>>

\* main only ever passes DEFAULT_TITLE, so gen_calendar's raise is no step of it
NextMain ==
    \/ MainParseStart \/ MainSingle \/ MainAfterGen
    \/ GenCreateSurface \/ GenPageBegin \/ GenShowPage \/ GenReturn
    \/ NextGrid

SpecMain == InitMain /\ [][NextMain]_vars

----------------------------------------------------------------------------
(* Properties of gen_calendar *)

InGrid == pc \in {"draw_grid", "grid_headers", "grid_rows", "gen_show_page"}

\* C1: the title length is checked before anything is drawn: a title of at
\* most 30 characters (30 included) lets the document be generated; a title
\* of 31 or more raises the title error, and then no surface (output file)
\* was created and no drawing operation or page was issued.
C1_TitleCheckedBeforeDrawing ==
    /\ Len(title) >= 31 =>
          /\ surfaces = <<>> /\ pages = <<>> /\ page_ops = 0 /\ squares = {}
          /\ pc = "gen_done" => gen_ret = "ValueError"
    /\ Len(title) <= 30 =>
          /\ pc # "gen_calendar" => surfaces = <<filename>>
          /\ pc = "gen_done" => gen_ret = "ok" /\ pages # <<>>

C1_Witness ==
    /\ pc = "gen_done" /\ Len(title) = 31 /\ gen_ret = "ValueError" /\ surfaces = <<>>

\* C4: a document has exactly ceil(90 / NUM_ROWS) = 5 pages whatever the birth
\* date; every turn of the page loop finalizes exactly one page, and a page is
\* only begun when all pages before it are finalized.
C4_FivePagesInSequence ==
    /\ (pc = "gen_done" /\ gen_ret = "ok") =>
          /\ Len(pages) = 5
          /\ Len(pages) = (LIFE_SPAN + NUM_ROWS - 1) \div NUM_ROWS
    /\ (pc = "gen_loop" \/ InGrid) => year = birthdate.year + NUM_ROWS * Len(pages)
    /\ pc = "gen_loop" => page_ops = 0
    /\ \A k \in 1..Len(pages) : pages[k].ops > 0

C4_Witness ==
    /\ pc = "gen_done" /\ gen_ret = "ok" /\ Len(pages) = 5 /\ birthdate.year = 1990

\* C5 (as amended): the date handed to draw_grid for page index k is the first
\* of January of the year birth_year + k * NUM_ROWS.
C5_PagesStartOnNewYear ==
    /\ \A k \in 1..Len(pages) :
          pages[k].start = MkDate(birthdate.year + (k - 1) * NUM_ROWS, 1, 1)
    /\ pc \in {"grid_headers", "grid_rows", "gen_show_page"} =>
          start_date = MkDate(birthdate.year + Len(pages) * NUM_ROWS, 1, 1)

C5_Witness ==
    /\ pc = "gen_done" /\ Len(pages) = 5
    /\ birthdate = MkDate(1990, 7, 6)
    /\ pages[3].start = MkDate(2030, 1, 1)

\* C5 (as the specification states it): the date handed to draw_grid for page
\* index k is (birth_year + k * NUM_ROWS, birth_month, birth_day).
C5_PagesStartOnBirthday ==
    /\ \A k \in 1..Len(pages) :
          pages[k].start =
              MkDate(birthdate.year + (k - 1) * NUM_ROWS, birthdate.month, birthdate.day)
    /\ pc \in {"grid_headers", "grid_rows", "gen_show_page"} =>
          start_date =
              MkDate(birthdate.year + Len(pages) * NUM_ROWS, birthdate.month, birthdate.day)

----------------------------------------------------------------------------
(* Properties of draw_grid *)

WrapMonth(m, k) == ((m - 1 + k) % 12) + 1

\* C8: started at (Y, M, D), the header cursor moves one month per column, so
\* the 12 headers are the months M, M+1, ... wrapping after December, and after
\* the 12 advances it stands at month M of year Y+1; the row cursor starts again
\* from the page's start date, is touched neither by the header advances nor by
\* draw_row, labels row i with the year Y + i and after NUM_ROWS advances has
\* moved exactly NUM_ROWS years.
C8_DateCursors ==
    /\ pc = "grid_headers" =>
          /\ Len(headers) = i
          /\ \A k \in 1..i : headers[k] = MonthAbbr[WrapMonth(start_date.month, k - 1)]
          /\ date.month = WrapMonth(start_date.month, i)
          /\ i = 12 => date.month = start_date.month /\ date.year = start_date.year + 1
    /\ pc \in {"grid_rows", "grid_done"} =>
          /\ Len(headers) = 12
          /\ \A k \in 1..12 : headers[k] = MonthAbbr[WrapMonth(start_date.month, k - 1)]
          /\ i = 0 => date = start_date
          /\ Len(row_labels) = i
          /\ \A k \in 1..i : Num(row_labels[k]) = start_date.year + (k - 1)
          /\ date.year = start_date.year + i /\ date.month = start_date.month
          /\ pc = "grid_done" => date.year = start_date.year + 20

C8_Witness ==
    /\ pc = "grid_done" /\ start_date = MkDate(1988, 11, 29)
    /\ headers[3] = "Jan" /\ Len(row_labels) = 20 /\ date = MkDate(2008, 11, 29)

\* C10: for the reference constants the box size is positive and is
\* (doc_height - (y_margin + header_offset)) / num_rows - box_margin, the grid is
\* centred but for the fixed offset, (box_size + box_margin) * num_columns +
\* 2 * (x_margin - offset) = doc_width, and every cell (row, col), 0 <= row < 20,
\* 0 <= col < 12, is drawn at (x_margin + col * (box_size + box_margin),
\* y_margin + row * (box_size + box_margin)) and lies wholly inside the page.
C10_Geometry ==
    /\ BOX_SIZE > 0
    /\ 20 * (BOX_SIZE + Units * 6) = Units * (2880 - (300 + 36))
    /\ (BOX_SIZE + Units * 6) * 12 + 2 * (X_MARGIN - Units * 50) = Units * 1872
    /\ \A sq \in squares :
          /\ sq.row \in 0..19 /\ sq.col \in 0..11
          /\ sq.x = X_MARGIN + sq.col * (BOX_SIZE + Units * 6)
          /\ sq.y = Units * 300 + sq.row * (BOX_SIZE + Units * 6)
          /\ sq.x >= 0 /\ sq.x + sq.size <= Units * 1872
          /\ sq.y >= 0 /\ sq.y + sq.size <= Units * 2880
    /\ pc = "grid_rows" => {<<sq.row, sq.col>> : sq \in squares} = (0..(i - 1)) \X (0..11)

C10_Witness ==
    /\ pc = "grid_done" /\ Cardinality(squares) = 240
    /\ \E sq \in squares : sq.row = 19 /\ sq.col = 11

----------------------------------------------------------------------------
(* Properties of parse_date *)

TwoDigits(n, w) == Len(Fmt(n, w)) = 2
FourDigits(n, w) == Len(Fmt(n, w)) = 4

\* the text without its blanks is DD/MM/YYYY or DD-MM-YYYY and names a day
ValidCore(sh) ==
    /\ sh.layout = "dmy"
    /\ sh.sep1 = sh.sep2 /\ sh.sep1 \in {"/", "-"}
    /\ TwoDigits(sh.d, sh.dw) /\ TwoDigits(sh.m, sh.mw) /\ FourDigits(sh.y, sh.yw)
    /\ DateOk(sh.y, sh.m, sh.d)

\* wrong or mixed separator, wrong field order, missing field, or a month or
\* day off the calendar
Malformed(sh) ==
    \/ sh.layout # "dmy"
    \/ sh.sep1 \notin {"/", "-"} \/ sh.sep2 # sh.sep1
    \/ sh.m \notin 1..12
    \/ sh.d \notin 1..31
    \/ sh.m \in 1..12 /\ sh.y \in 1..9999 /\ sh.d > DaysInMonth(sh.y, sh.m)

\* C2: a valid DD/MM/YYYY or DD-MM-YYYY text parses to the date whose day,
\* month and year are the fields of the text; a text with a wrong separator, a
\* wrong field order, a missing field or a day or month out of range raises the
\* format error and no date is returned.
C2_ParseRoundTrip ==
    pc = "parse_done" =>
        /\ (ValidCore(shape) /\ shape.lead = 0 /\ shape.trail = 0) =>
              parse_ret = Returned(MkDate(shape.y, shape.m, shape.d))
        /\ Malformed(shape) => parse_ret = ValueError

C2_Witness ==
    /\ pc = "parse_done" /\ ValidCore(shape) /\ shape.lead = 0 /\ shape.trail = 0
    /\ shape.sep1 = "-" /\ parse_ret = Returned(MkDate(2000, 2, 29))

\* C3: the patterns are matched against the trimmed text: a valid text with any
\* blanks around it parses, to the same date as without them.
C3_TrimmedTextParses ==
    (pc = "parse_done" /\ ValidCore(shape)) =>
        parse_ret = Returned(MkDate(shape.y, shape.m, shape.d))

----------------------------------------------------------------------------
(* Properties of is_current_week *)

\* (year, month, day) is a day of the calendar inside [lo, lo + 7 days)
DayInWeekFrom(lo, y, m, d) ==
    DateOk(y, m, d) /\ InWindow(lo, MkDate(y, m, d), AddDays(lo, 7))

\* C9: is_current_week returns true exactly when the day (month, day) of the
\* reference year or of the year after it lies in [reference, reference + 7 days),
\* for every reference date and every (month, day).
C9_CurrentWeekExactly ==
    pc = "week_done" =>
        wk_ret = [kind |-> "bool",
                  value |-> \/ DayInWeekFrom(now, now.year, wk_month, wk_day)
                            \/ DayInWeekFrom(now, now.year + 1, wk_month, wk_day)]

----------------------------------------------------------------------------
(* Properties of main *)

BatchRequested == Truthy(argv.enddate)
BatchStart == parse_date(argv.date)
BatchEnd == parse_date(argv.enddate)
BatchDatesOk == BatchStart.kind = "date" /\ BatchEnd.kind = "date"

\* "life_calendar_%s.pdf" % start.strftime('%d-%m-%Y')
BatchName(d) ==
    <<"l","i","f","e","_","c","a","l","e","n","d","a","r","_">>
        \o Fmt(d.day, 2) \o <<"-">> \o Fmt(d.month, 2) \o <<"-">> \o Fmt(d.year, 4)
        \o <<".","p","d","f">>

\* C6: with an end date given and start <= end, one document is generated for
\* each day from start to end, both included, in order, each named
\* life_calendar_<DD-MM-YYYY>.pdf after its day, and nothing after the end date.
C6_OneDocumentPerDay ==
    (pc = "main_done" /\ BatchRequested /\ BatchDatesOk
        /\ DateLE(BatchStart.date, BatchEnd.date)) =>
        /\ surfaces # <<>>
        /\ \A k \in 1..Len(surfaces) :
              surfaces[k] = BatchName(AddDays(BatchStart.date, k - 1))
        /\ surfaces[Len(surfaces)] = BatchName(BatchEnd.date)

\* C7: with an end date before the start date an error is reported and no
\* document is produced.
C7_InvertedRangeIsAnError ==
    (pc = "main_done" /\ BatchRequested /\ BatchDatesOk
        /\ DateLT(BatchEnd.date, BatchStart.date)) =>
        /\ surfaces = <<>>
        /\ \E k \in 1..Len(printed) : printed[k].line = "Error"

====
